---- MODULE Spec2Model ----
(***************************************************************************)
(* Model of src/pages/index.tsx: the Home component of the interview       *)
(* evaluator.  The state is the component's React state and refs, the      *)
(* browser timers it arms, the camera streams it acquires, the <video>     *)
(* element it reads, and every asynchronous call that is still             *)
(* outstanding (startInterview at an await, doDetection at an await).      *)
(*                                                                         *)
(* Conventions.  A missing id (null ref) is 0.  finalScore null is NoScore.*)
(* Probabilities and detector scores are integers in hundredths (0.5 is    *)
(* 50).  Each startInterview call k owns the stream k it acquires, the     *)
(* runScoring closure k (its isRunning local), the interval k, the 500 ms *)
(* one-shot k and the duration timeout k it arms.  detectionCount,         *)
(* debugInfo and the canvas feed the display only and are not modelled.    *)
(* React drops state updates of an unmounted component, so the setters     *)
(* act only while the component is mounted; refs and timers stay live.     *)
(***************************************************************************)
EXTENDS Integers, Sequences, FiniteSets, TLC

\* ---------------------------------------------------------------- bounds
MaxStarts == 2      \* startInterview calls in one behaviour
MaxTicks == 2       \* doDetection calls that reach the detector in one behaviour

Starts == 1..MaxStarts

\* ------------------------------------------------------------- constants
NoScore == -1

VARIABLES
    mounted,        \* the component is mounted; webcamRef.current is the <video>
    loadPc,         \* loadModels: "loading" | "done" | "failed"
    modelsLoaded,
    finalScore,
    interviewActive,
    webcamReady,
    error,          \* "none" | "models" | "webcam"
    scores,         \* scores.current
    intervalRef,    \* intervalRef.current: interval id or 0
    cleanupRef,     \* (intervalRef as any).cleanup: the closure it belongs to, or 0
    timeoutRef,     \* timeoutRef.current: timeout id or 0
    isRunning,      \* runScoring's local flag, per closure
    tickSeq,        \* history: doDetection calls that went on to the detector
    intervals,      \* armed setInterval timers
    firstTimers,    \* armed 500 ms one-shot timers
    durTimers,      \* armed duration timeouts
    startPc,        \* startInterview call k: "none" | "camera" | "video" | "done"
    nextStart,      \* id of the next startInterview call
    liveStreams,    \* acquired streams whose tracks are still running
    srcObject,      \* webcamRef.current.srcObject: stream id or 0
    video,          \* [readyState, videoWidth, videoHeight] of the <video>
    inflight,       \* doDetection calls suspended at an await
    scoresAtStop    \* history: scores.current as stopInterview last read it

vars == <<mounted, loadPc, modelsLoaded, finalScore, interviewActive, webcamReady,
          error, scores, intervalRef, cleanupRef, timeoutRef, isRunning,
          tickSeq, intervals, firstTimers, durTimers, startPc, nextStart,
          liveStreams, srcObject, video, inflight, scoresAtStop>>

\* ------------------------------------------------------- the <video> element
\* Assigning srcObject runs the media element load algorithm: readyState
\* drops to HAVE_NOTHING and the intrinsic size to 0x0.
VideoEmpty == [readyState |-> 0, videoWidth |-> 0, videoHeight |-> 0]
VideoPlaying == [readyState |-> 4, videoWidth |-> 640, videoHeight |-> 480]

\* waitForVideo's test (checkVideo)
checkVideoReady == mounted /\ video.readyState = 4 /\ video.videoWidth > 0

\* doDetection's test, negated "Video not ready, skipping detection"
detectionVideoReady ==
    ~(video.readyState # 4 \/ video.videoWidth = 0 \/ video.videoHeight = 0)

\* ------------------------------------------------------------ the detector
\* What the external face-api calls can answer.  A call may throw, return
\* nothing, or return a value; a face carries its raw score and its box.
Labels == {"neutral", "happy", "sad", "angry", "disgusted", "fearful", "surprised"}
ZeroProbs == [l \in Labels |-> 0]
NeutralProbs == [ZeroProbs EXCEPT !["neutral"] = 100]
FaceBox == [x |-> 100, width |-> 200]

NoFace == [kind |-> "null", score |-> 0, box |-> FaceBox]
RawScores == {25, 60}
DetectOutcomes ==
    {[kind |-> "throw", score |-> 0, box |-> FaceBox], NoFace}
    \cup {[kind |-> "face", score |-> s, box |-> FaceBox] : s \in RawScores}

NoExpr == [kind |-> "null", probs |-> ZeroProbs]
ExprOutcomes ==
    {[kind |-> "throw", probs |-> ZeroProbs], NoExpr,
     [kind |-> "value", probs |-> NeutralProbs]}

NoLand == [kind |-> "null", npos |-> 0, noseX |-> 0]
LandOutcomes ==
    {[kind |-> "throw", npos |-> 0, noseX |-> 0], NoLand,
     [kind |-> "value", npos |-> 68, noseX |-> 230]}

\* ---------------------------------------------------------- pure functions
Abs(x) == IF x < 0 THEN 0 - x ELSE x
Max(a, b) == IF a > b THEN a ELSE b
Min(a, b) == IF a < b THEN a ELSE b

\* Math.round of the rational num/den (den > 0): halves go up.
MathRound(num, den) == (2 * num + den) \div (2 * den)

\* positions.slice(27, 36).length for an array of npos points
noseLength(npos) == Max(0, Min(npos, 36) - 27)

\* Mutant of alignmentBonus: the bonus band includes its upper end
\* ("alignment <= 20").
alignmentBonus_inclusive(detection) ==
    LET lm == detection.landmarks
        box == detection.detection.box
        alignment2 == Abs(2 * lm.noseX - (2 * box.x + box.width))
    IN  IF lm.kind = "value" /\ noseLength(lm.npos) >= 2
        THEN IF alignment2 <= 40 THEN 1000
             ELSE IF alignment2 > 80 THEN 0 - 500
             ELSE 0
        ELSE 0

\* The head alignment bonus, in hundredths of a point.  The comparison of
\* |noseTip.x - (box.x + box.width / 2)| with 20 and 40 is made on doubled
\* values so that it stays in the integers.
alignmentBonus(detection) ==
    LET lm == detection.landmarks
        box == detection.detection.box
        alignment2 == Abs(2 * lm.noseX - (2 * box.x + box.width))
    IN  IF lm.kind = "value" /\ noseLength(lm.npos) >= 2
        THEN IF alignment2 < 40 THEN 1000
             ELSE IF alignment2 > 80 THEN 0 - 500
             ELSE 0
        ELSE 0

\* Mutant of scoreFromDetections: the floor of the clamp is lost.
scoreFromDetections_noFloor(detection) ==
    LET e == detection.expressions
        score100 == 5000 + e["neutral"] * 25 + e["happy"] * 15 + e["surprised"] * 5
                    - (e["angry"] + e["sad"] + e["disgusted"] + e["fearful"]) * 20
                    + alignmentBonus(detection)
    IN  Min(100, MathRound(score100, 100))

\* Mutant of scoreFromDetections: happy is weighted like neutral.
scoreFromDetections_happy25(detection) ==
    LET e == detection.expressions
        score100 == 5000 + e["neutral"] * 25 + e["happy"] * 25 + e["surprised"] * 5
                    - (e["angry"] + e["sad"] + e["disgusted"] + e["fearful"]) * 20
                    + alignmentBonus(detection)
    IN  Max(10, Min(100, MathRound(score100, 100)))

\* scoreFromDetections: the score before rounding is kept in hundredths.
scoreFromDetections(detection) ==
    LET e == detection.expressions
        score100 == 5000 + e["neutral"] * 25 + e["happy"] * 15 + e["surprised"] * 5
                    - (e["angry"] + e["sad"] + e["disgusted"] + e["fearful"]) * 20
                    + alignmentBonus(detection)
    IN  Max(10, Min(100, MathRound(score100, 100)))

RECURSIVE SumSeq(_)
SumSeq(s) == IF s = <<>> THEN 0 ELSE Head(s) + SumSeq(Tail(s))

\* Mutant of FinalScoreOf: the sum is not divided by the count.
FinalScoreOf_sum(s) ==
    IF Len(s) > 0 THEN SumSeq(s) ELSE 0

\* Mutant of FinalScoreOf: the mean is truncated instead of rounded.
FinalScoreOf_floor(s) ==
    IF Len(s) > 0 THEN SumSeq(s) \div Len(s) ELSE 0

\* Mutant of FinalScoreOf: no score is set when nothing was collected.
FinalScoreOf_null(s) ==
    IF Len(s) > 0 THEN MathRound(SumSeq(s), Len(s)) ELSE NoScore

\* stopInterview's "Calculate final score"
FinalScoreOf(s) ==
    IF Len(s) > 0 THEN MathRound(SumSeq(s), Len(s)) ELSE 0

\* ------------------------------------------------------ the detection ladder
detectionOptions ==
    <<[inputSize |-> 512, scoreThreshold |-> 50],
      [inputSize |-> 416, scoreThreshold |-> 40],
      [inputSize |-> 320, scoreThreshold |-> 30],
      [inputSize |-> 224, scoreThreshold |-> 20]>>

\* Mutant of rungFails: any face is accepted, whatever its score.
rungFails_anyFace(faceDetection, options) ==
    faceDetection.kind = "null"

\* Mutant of rungFails: every rung applies the loosest threshold.
rungFails_fixedBar(faceDetection, options) ==
    faceDetection.kind = "null" \/ faceDetection.score < 20

\* "!faceDetection || faceDetection.score < options.scoreThreshold"
rungFails(faceDetection, options) ==
    faceDetection.kind = "null" \/ faceDetection.score < options.scoreThreshold

\* A doDetection call that passed its guards and awaits rung 1.
NewTick(g, n) ==
    [gen |-> g, n |-> n, pc |-> "detect", i |-> 1, faceDetection |-> NoFace,
     expressions |-> NoExpr, landmarks |-> NoLand]

\* One turn of the for loop: detectSingleFace at rung t.i answered `out`.
\* pc "none" is the loop running out of rungs with detections still null.
ladderStep(t, out) ==
    LET fd == IF out.kind = "throw" THEN t.faceDetection ELSE out
        u == [t EXCEPT !.faceDetection = fd]
    IN  IF out.kind = "throw" \/ rungFails(fd, detectionOptions[t.i])
        THEN IF t.i < Len(detectionOptions)
             THEN [u EXCEPT !.i = t.i + 1]
             ELSE [u EXCEPT !.pc = "none"]
        ELSE [u EXCEPT !.pc = "expr"]

\* Mutant of exprStep: a throwing expression call aborts the detection.
exprStep_abort(t, out) ==
    IF out.kind = "throw"
    THEN [t EXCEPT !.pc = "abort"]
    ELSE [t EXCEPT !.pc = "land", !.expressions = out]

\* "Step 2: Get expressions": a throw leaves the local null.
exprStep(t, out) ==
    [t EXCEPT !.pc = "land",
              !.expressions = IF out.kind = "throw" THEN NoExpr ELSE out]

\* "Step 3: Get landmarks", after which the detection object is built.
landStep(t, out) ==
    [t EXCEPT !.pc = "push",
              !.landmarks = IF out.kind = "throw" THEN NoLand ELSE out]

\* "Create combined detection object"
detectionsOf(t) ==
    [detection |-> t.faceDetection,
     expressions |-> IF t.expressions.kind = "value" THEN t.expressions.probs
                     ELSE ZeroProbs,
     landmarks |-> IF t.landmarks.kind = "value" THEN t.landmarks ELSE NoLand]

\* Mutant of noDetectionScores: a missed detection is scored 0.
noDetectionScores_zero(s) == Append(s, 0)

\* The else branch of "if (detections && detections.detection)": nothing is pushed.
noDetectionScores(s) == s

\* ------------------------------------------------------------------- Init
Init ==
    /\ mounted = TRUE
    /\ loadPc = "loading"
    /\ modelsLoaded = FALSE
    /\ finalScore = NoScore
    /\ interviewActive = FALSE
    /\ webcamReady = FALSE
    /\ error = "none"
    /\ scores = <<>>
    /\ intervalRef = 0
    /\ cleanupRef = 0
    /\ timeoutRef = 0
    /\ isRunning = [k \in Starts |-> FALSE]
    /\ tickSeq = 0
    /\ intervals = {}
    /\ firstTimers = {}
    /\ durTimers = {}
    /\ startPc = [k \in Starts |-> "none"]
    /\ nextStart = 1
    /\ liveStreams = {}
    /\ srcObject = 0
    /\ video = VideoEmpty
    /\ inflight = {}
    /\ scoresAtStop = <<>>

\* A React state setter: a no-op once the component is unmounted.
SetState(cur, new) == IF mounted THEN new ELSE cur

\* ------------------------------------------------------------- loadModels
loadModelsOk ==
    /\ loadPc = "loading"
    /\ loadPc' = "done"
    /\ modelsLoaded' = SetState(modelsLoaded, TRUE)
    /\ UNCHANGED <<mounted, finalScore, interviewActive, webcamReady, error, scores,
                   intervalRef, cleanupRef, timeoutRef, isRunning, tickSeq,
                   intervals, firstTimers, durTimers, startPc, nextStart, liveStreams,
                   srcObject, video, inflight, scoresAtStop>>

loadModelsFail ==
    /\ loadPc = "loading"
    /\ loadPc' = "failed"
    /\ error' = SetState(error, "models")
    /\ UNCHANGED <<mounted, modelsLoaded, finalScore, interviewActive, webcamReady,
                   scores, intervalRef, cleanupRef, timeoutRef, isRunning,
                   tickSeq, intervals, firstTimers, durTimers, startPc,
                   nextStart, liveStreams, srcObject, video, inflight, scoresAtStop>>

\* --------------------------------------------------------- startInterview
\* The Start button is rendered when !interviewActive && finalScore === null
\* && modelsLoaded.  The call runs to its first await, getUserMedia.
StartClick ==
    /\ mounted /\ ~interviewActive /\ finalScore = NoScore /\ modelsLoaded
    /\ nextStart <= MaxStarts
    /\ error' = "none"
    /\ scores' = <<>>
    /\ startPc' = [startPc EXCEPT ![nextStart] = "camera"]
    /\ nextStart' = nextStart + 1
    /\ UNCHANGED <<mounted, loadPc, modelsLoaded, finalScore, interviewActive,
                   webcamReady, intervalRef, cleanupRef, timeoutRef, isRunning,
                   tickSeq, intervals, firstTimers, durTimers, liveStreams,
                   srcObject, video, inflight, scoresAtStop>>

\* getUserMedia resolves with stream k.  With the <video> present the stream
\* becomes its srcObject (the previous srcObject is dropped, not stopped) and
\* checkVideo runs once: the element was just reset, so it arms its 100 ms poll.
GetUserMediaOk(k) ==
    /\ startPc[k] = "camera"
    /\ liveStreams' = liveStreams \cup {k}
    /\ IF mounted
       THEN /\ srcObject' = k
            /\ video' = VideoEmpty
            /\ startPc' = [startPc EXCEPT ![k] = "video"]
       ELSE /\ startPc' = [startPc EXCEPT ![k] = "done"]
            /\ UNCHANGED <<srcObject, video>>
    /\ UNCHANGED <<mounted, loadPc, modelsLoaded, finalScore, interviewActive,
                   webcamReady, error, scores, intervalRef, cleanupRef, timeoutRef,
                   isRunning, tickSeq, intervals, firstTimers, durTimers,
                   nextStart, inflight, scoresAtStop>>

\* Mutant of GetUserMediaFail: the catch block reports nothing.
GetUserMediaFail_silent(k) ==
    /\ startPc[k] = "camera"
    /\ startPc' = [startPc EXCEPT ![k] = "done"]
    /\ interviewActive' = SetState(interviewActive, FALSE)
    /\ UNCHANGED <<mounted, loadPc, modelsLoaded, finalScore, webcamReady, error,
                   scores, intervalRef, cleanupRef, timeoutRef, isRunning, tickSeq,
                   intervals, firstTimers, durTimers, nextStart, liveStreams,
                   srcObject, video, inflight, scoresAtStop>>

\* getUserMedia rejects: the catch block.
GetUserMediaFail(k) ==
    /\ startPc[k] = "camera"
    /\ startPc' = [startPc EXCEPT ![k] = "done"]
    /\ error' = SetState(error, "webcam")
    /\ interviewActive' = SetState(interviewActive, FALSE)
    /\ UNCHANGED <<mounted, loadPc, modelsLoaded, finalScore, webcamReady, scores,
                   intervalRef, cleanupRef, timeoutRef, isRunning, tickSeq,
                   intervals, firstTimers, durTimers, nextStart, liveStreams,
                   srcObject, video, inflight, scoresAtStop>>

\* timeoutRef.current = setTimeout(stopInterview, INTERVIEW_DURATION_MS)
armTimeout(timers, k) == timers \cup {k}

\* The 100 ms poll of waitForVideo fires.  Not ready: it re-arms itself.
\* Ready: the promise resolves and startInterview runs to its end, which
\* includes the whole of runScoring (it has no await).
PollVideo(k) ==
    /\ startPc[k] = "video"
    /\ IF checkVideoReady
       THEN /\ interviewActive' = SetState(interviewActive, TRUE)
            /\ webcamReady' = SetState(webcamReady, TRUE)
            /\ isRunning' = [isRunning EXCEPT ![k] = TRUE]
            /\ intervalRef' = k
            /\ intervals' = intervals \cup {k}
            /\ cleanupRef' = k
            /\ firstTimers' = firstTimers \cup {k}
            /\ timeoutRef' = k
            /\ durTimers' = armTimeout(durTimers, k)
            /\ startPc' = [startPc EXCEPT ![k] = "done"]
       ELSE UNCHANGED <<interviewActive, webcamReady, isRunning, intervalRef,
                        intervals, cleanupRef, firstTimers, timeoutRef, durTimers,
                        startPc>>
    /\ UNCHANGED <<mounted, loadPc, modelsLoaded, finalScore, error, scores,
                   tickSeq, nextStart, liveStreams, srcObject, video,
                   inflight, scoresAtStop>>

\* The browser delivers frames of a live srcObject: the element reaches
\* HAVE_ENOUGH_DATA with its intrinsic size known.
VideoBecomesReady ==
    /\ srcObject # 0 /\ srcObject \in liveStreams
    /\ video = VideoEmpty
    /\ video' = VideoPlaying
    /\ UNCHANGED <<mounted, loadPc, modelsLoaded, finalScore, interviewActive,
                   webcamReady, error, scores, intervalRef, cleanupRef, timeoutRef,
                   isRunning, tickSeq, intervals, firstTimers, durTimers,
                   startPc, nextStart, liveStreams, srcObject, inflight, scoresAtStop>>

\* ---------------------------------------------------------- stopInterview
\* dt: the duration timeouts armed when the body starts.  With a ref set,
\* the stored cleanup closure is always present once runScoring has run; the
\* plain clearInterval branch is kept for the case it is not.
stopInterview(dt) ==
    /\ isRunning' = IF intervalRef # 0 /\ cleanupRef # 0
                    THEN [isRunning EXCEPT ![cleanupRef] = FALSE]
                    ELSE isRunning
    /\ intervals' = intervals \ {intervalRef}
    /\ intervalRef' = 0
    /\ durTimers' = dt \ {timeoutRef}
    /\ timeoutRef' = 0
    /\ finalScore' = SetState(finalScore, FinalScoreOf(scores))
    /\ scoresAtStop' = SetState(scoresAtStop, scores)
    /\ IF mounted /\ srcObject # 0
       THEN /\ liveStreams' = liveStreams \ {srcObject}
            /\ srcObject' = 0
            /\ video' = VideoEmpty
       ELSE UNCHANGED <<liveStreams, srcObject, video>>
    /\ webcamReady' = SetState(webcamReady, FALSE)
    /\ interviewActive' = SetState(interviewActive, FALSE)
    /\ UNCHANGED <<mounted, loadPc, modelsLoaded, error, scores, cleanupRef,
                   tickSeq, firstTimers, startPc, nextStart, inflight>>

\* The Stop button is rendered when interviewActive.
StopClick ==
    /\ mounted /\ interviewActive
    /\ stopInterview(durTimers)

\* The duration timeout armed by start k fires.
DurationFire(k) ==
    /\ k \in durTimers
    /\ stopInterview(durTimers \ {k})

\* -------------------------------------------------------- resetEvaluation
\* The Reset button is rendered when finalScore !== null.
ResetClick ==
    /\ mounted /\ finalScore # NoScore
    /\ finalScore' = NoScore
    /\ error' = "none"
    /\ scores' = <<>>
    /\ scoresAtStop' = <<>>
    /\ intervals' = intervals \ {intervalRef}
    /\ intervalRef' = 0
    /\ durTimers' = durTimers \ {timeoutRef}
    /\ timeoutRef' = 0
    /\ IF srcObject # 0
       THEN /\ liveStreams' = liveStreams \ {srcObject}
            /\ srcObject' = 0
            /\ video' = VideoEmpty
       ELSE UNCHANGED <<liveStreams, srcObject, video>>
    /\ webcamReady' = FALSE
    /\ interviewActive' = FALSE
    /\ UNCHANGED <<mounted, loadPc, modelsLoaded, cleanupRef, isRunning,
                   tickSeq, firstTimers, startPc, nextStart, inflight>>

\* ---------------------------------------------------- cleanup on unmount
\* The effect cleanup clears the two timers the refs name and stops the
\* tracks of webcamRef.current.srcObject.  It reads webcamRef.current when
\* it runs: whether React has already detached the ref by then depends on
\* the React version, so both outcomes are kept.  The component's useState
\* values cease to exist; the refs, the other timers and the outstanding
\* promises live on in the closures.
Unmount ==
    /\ mounted
    /\ mounted' = FALSE
    /\ intervals' = intervals \ {intervalRef}
    /\ durTimers' = durTimers \ {timeoutRef}
    /\ \E attached \in BOOLEAN :
          liveStreams' = IF attached /\ srcObject # 0
                         THEN liveStreams \ {srcObject}
                         ELSE liveStreams
    /\ modelsLoaded' = FALSE
    /\ finalScore' = NoScore
    /\ interviewActive' = FALSE
    /\ webcamReady' = FALSE
    /\ error' = "none"
    /\ scoresAtStop' = <<>>
    /\ UNCHANGED <<loadPc, scores, intervalRef, cleanupRef, timeoutRef, isRunning,
                   tickSeq, firstTimers, startPc, nextStart, srcObject,
                   video, inflight>>

\* ------------------------------------------------------------ doDetection
\* doDetection of closure g, up to its first await: the local flag, the
\* webcam ref and the readiness of the video.  A call that returns early
\* changes nothing (its counter only feeds the debug log).
doDetection(g) ==
    IF isRunning[g] /\ mounted /\ detectionVideoReady
    THEN /\ tickSeq < MaxTicks
         /\ tickSeq' = tickSeq + 1
         /\ inflight' = inflight \cup {NewTick(g, tickSeq + 1)}
    ELSE UNCHANGED <<tickSeq, inflight>>

\* setInterval(doDetection, 1500) of closure g fires.
IntervalFire(g) ==
    /\ g \in intervals
    /\ doDetection(g)
    /\ UNCHANGED <<mounted, loadPc, modelsLoaded, finalScore, interviewActive,
                   webcamReady, error, scores, intervalRef, cleanupRef, timeoutRef,
                   isRunning, intervals, firstTimers, durTimers, startPc, nextStart,
                   liveStreams, srcObject, video, scoresAtStop>>

\* The 500 ms "Run first detection" timeout of closure g fires.
FirstFire(g) ==
    /\ g \in firstTimers
    /\ firstTimers' = firstTimers \ {g}
    /\ doDetection(g)
    /\ UNCHANGED <<mounted, loadPc, modelsLoaded, finalScore, interviewActive,
                   webcamReady, error, scores, intervalRef, cleanupRef, timeoutRef,
                   isRunning, intervals, durTimers, startPc, nextStart,
                   liveStreams, srcObject, video, scoresAtStop>>

\* The end of a suspended doDetection t.  pc "push": the detection object
\* exists and its score is pushed.  pc "none": no rung succeeded.  pc
\* "abort": an error reached the outer catch, which only logs it.
finish(t, pc, score) ==
    /\ inflight' = inflight \ {t}
    /\ scores' = IF pc = "push" THEN Append(scores, score)
                 ELSE IF pc = "none" THEN noDetectionScores(scores)
                 ELSE scores
    /\ UNCHANGED <<mounted, loadPc, modelsLoaded, finalScore, interviewActive,
                   webcamReady, error, intervalRef, cleanupRef, timeoutRef,
                   isRunning, tickSeq, intervals, firstTimers, durTimers,
                   startPc, nextStart, liveStreams, srcObject, video, scoresAtStop>>

\* What a call that ended as u pushes, if it pushes.
pushedScore(u) ==
    IF u.pc = "push" THEN scoreFromDetections(detectionsOf(u)) ELSE 0

\* A suspended doDetection t resumes as u: it ends, or suspends again.
resume(t, u) ==
    IF u.pc \in {"push", "none", "abort"}
    THEN finish(t, u.pc, pushedScore(u))
    ELSE /\ inflight' = (inflight \ {t}) \cup {u}
         /\ UNCHANGED <<mounted, loadPc, modelsLoaded, finalScore, interviewActive,
                        webcamReady, error, scores, intervalRef, cleanupRef,
                        timeoutRef, isRunning, tickSeq, intervals, firstTimers,
                        durTimers, startPc, nextStart, liveStreams, srcObject,
                        video, scoresAtStop>>

\* detectSingleFace of the current rung settles.
DetectResolve(t, out) ==
    /\ t \in inflight /\ t.pc = "detect"
    /\ resume(t, ladderStep(t, out))

\* detectFaceExpressions settles.
ExprResolve(t, out) ==
    /\ t \in inflight /\ t.pc = "expr"
    /\ resume(t, exprStep(t, out))

\* detectFaceLandmarks settles.
LandResolve(t, out) ==
    /\ t \in inflight /\ t.pc = "land"
    /\ resume(t, landStep(t, out))

\* The records a suspended doDetection can be in after its next await
\* settles, for every answer the detector can give; a call that has ended
\* stays as it is.
tickSuccessors(t) ==
    IF t.pc = "detect" THEN {ladderStep(t, out) : out \in DetectOutcomes}
    ELSE IF t.pc = "expr" THEN {exprStep(t, out) : out \in ExprOutcomes}
    ELSE IF t.pc = "land" THEN {landStep(t, out) : out \in LandOutcomes}
    ELSE {t}

\* Every way the rest of the calls in T can run, as the records they end with.
RECURSIVE tickRuns(_)
tickRuns(T) ==
    IF \A t \in T : t.pc \in {"push", "none", "abort"}
    THEN T
    ELSE tickRuns(UNION {tickSuccessors(t) : t \in T})

\* How a doDetection call that is at its first await can end: the pc it
\* ends with and the score it pushes.  This does not depend on which call
\* it is.
FreshEnds == {<<u.pc, pushedScore(u)>> : u \in tickRuns({NewTick(0, 0)})}

\* Between its first await and its end a doDetection call touches only its
\* own locals, so in the session model (where a suspended call is always at
\* its first await) the awaits after the first are taken in one step;
\* LadderSpec below takes them one at a time.
DetectionSettles(t) ==
    /\ t \in inflight /\ t = NewTick(t.gen, t.n)
    /\ \E r \in FreshEnds : finish(t, r[1], r[2])

\* ------------------------------------------------------------------- Next
Next ==
    \/ loadModelsOk
    \/ loadModelsFail
    \/ StartClick
    \/ \E k \in Starts : GetUserMediaOk(k)
    \/ \E k \in Starts : GetUserMediaFail(k)
    \/ \E k \in Starts : PollVideo(k)
    \/ VideoBecomesReady
    \/ StopClick
    \/ \E k \in Starts : DurationFire(k)
    \/ ResetClick
    \/ Unmount
    \/ \E g \in Starts : IntervalFire(g)
    \/ \E g \in Starts : FirstFire(g)
    \/ \E t \in inflight : DetectionSettles(t)

Spec == Init /\ [][Next]_vars

\* The same program with fairness on the duration timeouts: an armed
\* setTimeout fires.
LiveSpec == Spec /\ WF_vars(\E k \in Starts : DurationFire(k))

\* ------------------------------------------------------------ LadderSpec
\* A running session, as start 1 leaves it once the video is ready, in
\* which every await of doDetection is a step of its own.
LadderInit ==
    /\ mounted = TRUE
    /\ loadPc = "done"
    /\ modelsLoaded = TRUE
    /\ finalScore = NoScore
    /\ interviewActive = TRUE
    /\ webcamReady = TRUE
    /\ error = "none"
    /\ scores = <<>>
    /\ intervalRef = 1
    /\ cleanupRef = 1
    /\ timeoutRef = 1
    /\ isRunning = [k \in Starts |-> k = 1]
    /\ tickSeq = 0
    /\ intervals = {1}
    /\ firstTimers = {1}
    /\ durTimers = {1}
    /\ startPc = [k \in Starts |-> IF k = 1 THEN "done" ELSE "none"]
    /\ nextStart = 2
    /\ liveStreams = {1}
    /\ srcObject = 1
    /\ video = VideoPlaying
    /\ inflight = {}
    /\ scoresAtStop = <<>>

LadderNext ==
    \/ \E g \in Starts : IntervalFire(g)
    \/ \E g \in Starts : FirstFire(g)
    \/ \E t \in inflight : \E out \in DetectOutcomes : DetectResolve(t, out)
    \/ \E t \in inflight : \E out \in ExprOutcomes : ExprResolve(t, out)
    \/ \E t \in inflight : \E out \in LandOutcomes : LandResolve(t, out)
    \/ StopClick

LadderSpec == LadderInit /\ [][LadderNext]_vars

\* -------------------------------------------------------------- ScoreSpec
\* scoreFromDetections on its own.  The inputs are the detection objects
\* doDetection can hand it: a face a rung accepted, with box centre 200 or
\* 200.5, each expression probability 0, 0.5 or 1 (or the expressions
\* missing), and the landmarks missing or present with too few or enough
\* points and a nose tip at the band edges.  These probabilities, weights
\* and sums are exact in binary floating point.  The call sits between the
\* build of the detection object and the push of its score.
ProbGrid == {0, 50, 100}
ScoreBoxes == {[x |-> 100, width |-> 200], [x |-> 100, width |-> 201]}
ScoreExpressions ==
    {NoExpr} \cup {[kind |-> "value", probs |-> p] : p \in [Labels -> ProbGrid]}
ScoreLandmarks ==
    {NoLand} \cup {[kind |-> "value", npos |-> n, noseX |-> x] :
                       n \in {28, 68},
                       x \in {159, 160, 180, 200, 219, 220, 221, 240, 241}}
ScoreTicks ==
    {[gen |-> 1, n |-> 1, pc |-> "push", i |-> 1,
      faceDetection |-> [kind |-> "face", score |-> 60, box |-> b],
      expressions |-> e, landmarks |-> l] :
        b \in ScoreBoxes, e \in ScoreExpressions, l \in ScoreLandmarks}

ScoreInit ==
    /\ mounted = TRUE
    /\ loadPc = "done"
    /\ modelsLoaded = TRUE
    /\ finalScore = NoScore
    /\ interviewActive = TRUE
    /\ webcamReady = TRUE
    /\ error = "none"
    /\ scores = <<>>
    /\ intervalRef = 1
    /\ cleanupRef = 1
    /\ timeoutRef = 1
    /\ isRunning = [k \in Starts |-> k = 1]
    /\ tickSeq = 1
    /\ intervals = {1}
    /\ firstTimers = {}
    /\ durTimers = {1}
    /\ startPc = [k \in Starts |-> IF k = 1 THEN "done" ELSE "none"]
    /\ nextStart = 2
    /\ liveStreams = {1}
    /\ srcObject = 1
    /\ video = VideoPlaying
    /\ \E t \in ScoreTicks : inflight = {t}
    /\ scoresAtStop = <<>>

\* "const score = scoreFromDetections(detections); scores.current.push(score)"
ScorePush(t) ==
    /\ t \in inflight /\ t.pc = "push"
    /\ finish(t, "push", pushedScore(t))

ScoreNext == \E t \in inflight : ScorePush(t)

ScoreSpec == ScoreInit /\ [][ScoreNext]_vars

\* ---------------------------------------------------------------- SeqSpec
\* The program with a user who does not click Start again while an earlier
\* start is still waiting for the camera or for the video.
StartPending(k) == startPc[k] \in {"camera", "video"}

SeqStartClick ==
    /\ \A k \in Starts : ~StartPending(k)
    /\ StartClick

SeqNext ==
    \/ loadModelsOk
    \/ loadModelsFail
    \/ SeqStartClick
    \/ \E k \in Starts : GetUserMediaOk(k)
    \/ \E k \in Starts : GetUserMediaFail(k)
    \/ \E k \in Starts : PollVideo(k)
    \/ VideoBecomesReady
    \/ StopClick
    \/ \E k \in Starts : DurationFire(k)
    \/ ResetClick
    \/ Unmount
    \/ \E g \in Starts : IntervalFire(g)
    \/ \E g \in Starts : FirstFire(g)
    \/ \E t \in inflight : DetectionSettles(t)

SeqSpec == Init /\ [][SeqNext]_vars

\* --------------------------------------------------------------- LeakSpec
\* The program from the state a double start leaves behind: Start was
\* clicked twice, both calls ran runScoring (the second overwrote
\* intervalRef.current, its cleanup and timeoutRef.current), the second
\* call's 500 ms timer fired, and then Stop and Reset were clicked.  Stop
\* and Reset reached only what the refs and srcObject named, the second
\* call's timers, flag and stream: the first call's interval, 500 ms timer,
\* duration timeout and stream are still live and its isRunning is still
\* true.  Nothing of the second call is left (its flag is false, the stored
\* cleanup is its closure), so its id is free again and names the next call.
LeakInit ==
    /\ mounted = TRUE
    /\ loadPc = "done"
    /\ modelsLoaded = TRUE
    /\ finalScore = NoScore
    /\ interviewActive = FALSE
    /\ webcamReady = FALSE
    /\ error = "none"
    /\ scores = <<>>
    /\ intervalRef = 0
    /\ cleanupRef = 2
    /\ timeoutRef = 0
    /\ isRunning = [k \in Starts |-> k = 1]
    /\ tickSeq = 0
    /\ intervals = {1}
    /\ firstTimers = {1}
    /\ durTimers = {1}
    /\ startPc = [k \in Starts |-> IF k = 1 THEN "done" ELSE "none"]
    /\ nextStart = 2
    /\ liveStreams = {1}
    /\ srcObject = 0
    /\ video = VideoEmpty
    /\ inflight = {}
    /\ scoresAtStop = <<>>

LeakNext ==
    \/ StartClick
    \/ \E k \in Starts : GetUserMediaOk(k)
    \/ \E k \in Starts : GetUserMediaFail(k)
    \/ \E k \in Starts : PollVideo(k)
    \/ VideoBecomesReady
    \/ StopClick
    \/ \E k \in Starts : DurationFire(k)
    \/ ResetClick
    \/ Unmount
    \/ \E g \in Starts : IntervalFire(g)
    \/ \E g \in Starts : FirstFire(g)
    \/ \E t \in inflight : DetectionSettles(t)

LeakSpec == LeakInit /\ [][LeakNext]_vars

\* ------------------------------------------------------------ SeqLiveSpec
\* SeqSpec with the scheduling a start relies on: a pending getUserMedia
\* promise settles, an armed 100 ms poll fires, and the browser brings the
\* video of a live stream to HAVE_ENOUGH_DATA.
SeqLiveSpec ==
    /\ SeqSpec
    /\ WF_vars(\E k \in Starts : GetUserMediaOk(k) \/ GetUserMediaFail(k))
    /\ WF_vars(\E k \in Starts : PollVideo(k))
    /\ WF_vars(VideoBecomesReady)

\* ================================================================ claims
\* The session state the page shows: running while interviewActive, else
\* finished once a final score is set, else idle.
SessionState ==
    IF interviewActive THEN "running"
    ELSE IF finalScore # NoScore THEN "finished"
    ELSE "idle"

\* A step of stopInterview that sets the first final score of a session:
\* with no final score set, nothing else sets one or clears timeoutRef.current.
FirstStopStep ==
    /\ mounted /\ mounted'
    /\ finalScore = NoScore
    /\ finalScore' # NoScore \/ (timeoutRef # 0 /\ timeoutRef' = 0)

\* C1: once stopInterview has computed the final score (the session is
\* finished) no detection tick appends to or otherwise changes the length of
\* the collected scores, a tick that was awaiting the detector when the stop
\* was performed included; only a reset or the next start may empty them.
C1_NoTickAfterFinal ==
    [][(mounted /\ mounted' /\ SessionState = "finished")
          => Len(scores') <= Len(scores)]_vars

\* C2: the session only moves idle -> running -> finished -> idle.
C2_Transitions ==
    {<<"idle", "idle">>, <<"idle", "running">>,
     <<"running", "running">>, <<"running", "finished">>,
     <<"finished", "finished">>, <<"finished", "idle">>}

C2_StateMachine ==
    [][(mounted /\ mounted') => <<SessionState, SessionState'>> \in C2_Transitions]_vars

\* C3: at most one periodic sampling timer and at most one duration timer
\* is armed in every reachable state.
C3_OneTimer ==
    Cardinality(intervals) <= 1 /\ Cardinality(durTimers) <= 1

\* C4: after stop, reset or unmount (the component is gone, or the session
\* is neither running nor being started) no acquired stream has running tracks.
C4_CameraReleased ==
    (~mounted \/ (~interviewActive /\ \A k \in Starts : ~StartPending(k)))
        => liveStreams = {}

\* C5: every running session eventually becomes finished (unless the
\* component is unmounted first), given that armed duration timeouts fire.
C5_RunningLeadsToFinished ==
    (mounted /\ SessionState = "running")
        ~> (~mounted \/ SessionState = "finished")

\* C6 (as claimed): the final score is the arithmetic mean of the scores
\* stopInterview read.
C6_ExactMean ==
    (finalScore # NoScore /\ Len(scoresAtStop) > 0)
        => finalScore * Len(scoresAtStop) = SumSeq(scoresAtStop)

\* C6 (amended): the final score is the arithmetic mean of the scores
\* stopInterview read, rounded to the nearest integer, halves up:
\* mean - 1/2 < finalScore <= mean + 1/2.
C6_RoundedMean ==
    (finalScore # NoScore /\ Len(scoresAtStop) > 0)
        => LET n == Len(scoresAtStop)
               sum == SumSeq(scoresAtStop)
           IN  /\ 2 * finalScore * n <= 2 * sum + n
               /\ 2 * sum - n < 2 * finalScore * n

\* A stop that read two scores whose mean is not an integer.
C6_Witness ==
    /\ finalScore # NoScore
    /\ Len(scoresAtStop) = 2
    /\ finalScore * 2 # SumSeq(scoresAtStop)

\* C7: a stop with zero collected scores sets the final score to exactly 0
\* and leaves the error as it was.
C7_EmptyStopIsZero ==
    [][(FirstStopStep /\ scores = <<>>) => (finalScore' = 0 /\ error' = error)]_vars

\* A finished session whose stop read no score, with no error shown.
C7_Witness ==
    /\ mounted /\ SessionState = "finished"
    /\ scoresAtStop = <<>> /\ finalScore = 0 /\ error = "none"

\* The rungs as the claim lists them: (inputSize, scoreThreshold in hundredths).
C8_Rungs == <<<<512, 50>>, <<416, 40>>, <<320, 30>>, <<224, 20>>>>

C8_Meets(t) ==
    /\ t.faceDetection.kind = "face"
    /\ t.faceDetection.score >= C8_Rungs[t.i][2]

\* The doDetection call numbered n, in a set of suspended calls.
TickOf(T, n) == {u \in T : u.n = n}

\* C8: the ladder tries the rungs in the order (512, 0.5), (416, 0.4),
\* (320, 0.3), (224, 0.2) and stops at the first rung whose result exists
\* with a raw score at least the rung's threshold.  A call enters at rung 1
\* with that rung's options; from rung i it either goes on to rung i + 1
\* (only when the answer at rung i did not meet rung i's threshold, or the
\* call threw and left the previous result in place), or settles on rung i
\* with a result that meets its threshold, or ends for want of rungs (only
\* at the last rung); once settled it tries no other rung; and a score is
\* appended only by a call that had settled on a rung.
C8_LadderOrder ==
    [][/\ \A u \in inflight' :
            TickOf(inflight, u.n) = {} => (u.pc = "detect" /\ u.i = 1)
       /\ \A t \in inflight : \A u \in TickOf(inflight', t.n) :
            /\ detectionOptions[u.i].inputSize = C8_Rungs[u.i][1]
            /\ detectionOptions[u.i].scoreThreshold = C8_Rungs[u.i][2]
            /\ t.pc = "detect" =>
                 \/ u = t
                 \/ /\ u.pc = "detect" /\ u.i = t.i + 1
                    /\ (~C8_Meets([u EXCEPT !.i = t.i])
                        \/ u.faceDetection = t.faceDetection)
                 \/ u.pc = "expr" /\ u.i = t.i /\ C8_Meets(u)
            /\ t.pc # "detect" =>
                 u.pc # "detect" /\ u.i = t.i /\ u.faceDetection = t.faceDetection
       /\ \A t \in inflight :
            (t.pc = "detect" /\ TickOf(inflight', t.n) = {}) => t.i = Len(C8_Rungs)
       /\ Len(scores') > Len(scores) =>
            \E t \in inflight :
                t.pc = "land" /\ C8_Meets(t) /\ TickOf(inflight', t.n) = {}
      ]_vars

\* A detector that succeeded only at the last rung: the call settled on
\* rung 4 with raw score 0.25 and goes on to build its observation.
C8_Witness ==
    \E t \in inflight :
        t.pc = "expr" /\ t.i = 4 /\ t.faceDetection.score = 25

\* C9: a tick in which no rung succeeds ends without an error reaching the
\* session, with the session as running as it was and the collected scores
\* unchanged.
C9_NoDetectionIsSilent ==
    [][\A t \in inflight :
          (t.pc = "detect" /\ TickOf(inflight', t.n) = {})
             => /\ scores' = scores
                /\ error' = error
                /\ interviewActive' = interviewActive
                /\ finalScore' = finalScore
      ]_vars

\* A tick went through the ladder and ended with nothing pushed, and the
\* session is still running without error.
C9_Witness ==
    /\ tickSeq > 0 /\ inflight = {} /\ scores = <<>>
    /\ interviewActive /\ error = "none"

\* The scores a settled call can push when its expressions are missing:
\* base 50 with or without the alignment correction.
C10_NoExpressionScores == {45, 50, 60}

\* C10: once a rung has confirmed a face, the expression call and the
\* landmark call cannot abort the detection: after the expression call the
\* tick goes on to the landmark call, after the landmark call it appends
\* exactly one score, and with the expressions missing that score is one
\* computed from no expressions.
C10_BestEffort ==
    [][\A t \in inflight :
          /\ t.pc = "expr" =>
                \/ t \in inflight'
                \/ /\ \E u \in TickOf(inflight', t.n) : u.pc = "land"
                   /\ scores' = scores
          /\ t.pc = "land" =>
                \/ t \in inflight'
                \/ /\ TickOf(inflight', t.n) = {}
                   /\ Len(scores') = Len(scores) + 1
                   /\ SubSeq(scores', 1, Len(scores)) = scores
                   /\ t.expressions.kind # "value" =>
                        scores'[Len(scores')] \in C10_NoExpressionScores
      ]_vars

\* The expression call failed and the tick went on to the landmark call.
C10_Witness ==
    \E t \in inflight : t.pc = "land" /\ t.expressions.kind # "value"

\* C11: every score appended to the collected sequence comes from a tick
\* whose face has a raw score at least the threshold of the rung the tick
\* settled on, and so at least 0.2, the threshold of the loosest rung.
C11_ConfidenceMeetsRung ==
    [][Len(scores') > Len(scores) =>
          \E t \in inflight :
              /\ TickOf(inflight', t.n) = {}
              /\ t.faceDetection.kind = "face"
              /\ t.faceDetection.score >= detectionOptions[t.i].scoreThreshold
              /\ t.faceDetection.score >= 20
      ]_vars

\* One tick ran through the ladder and appended its score.
C11_Witness ==
    tickSeq = 1 /\ inflight = {} /\ Len(scores) = 1

\* C12: every instantaneous score is an integer from 10 to 100, whatever the
\* seven probabilities and the alignment offset are.
C12_ScoreInRange ==
    \A j \in 1..Len(scores) : scores[j] \in 10..100

\* A score at the floor has been appended.
C12_Witness ==
    inflight = {} /\ scores = <<10>>

\* The claimed weighted sum, in hundredths, of probabilities e in hundredths.
C13_Raw100(e) ==
    5000 + 25 * e["neutral"] + 15 * e["happy"] + 5 * e["surprised"]
         - 20 * (e["angry"] + e["sad"] + e["disgusted"] + e["fearful"])

\* s is raw100 / 100 rounded to a nearest integer and clamped to [10, 100].
C13_RoundedClamped(raw100, s) ==
    \E r \in -100..200 :
        /\ 2 * Abs(100 * r - raw100) <= 100
        /\ s = (IF r < 10 THEN 10 ELSE IF r > 100 THEN 100 ELSE r)

\* The probabilities a detection object carries: all zero when absent.
C13_Probs(t) ==
    IF t.expressions.kind = "value" THEN t.expressions.probs ELSE ZeroProbs

\* C13: with the landmarks absent the appended score is
\* 50 + 25 neutral + 15 happy + 5 surprised - 20 (angry + sad + disgusted +
\* fearful), rounded to the nearest integer and clamped to [10, 100];
\* all-zero or absent probabilities give 50, and neutral 1.0 alone gives 75.
C13_WeightedSum ==
    [][\A t \in inflight :
          (t.pc = "push" /\ t \notin inflight' /\ t.landmarks.kind # "value")
             => /\ Len(scores') = Len(scores) + 1
                /\ C13_RoundedClamped(C13_Raw100(C13_Probs(t)), scores'[Len(scores')])
                /\ C13_Probs(t) = ZeroProbs => scores'[Len(scores')] = 50
                /\ C13_Probs(t) = NeutralProbs => scores'[Len(scores')] = 75
      ]_vars

\* The score of neutral 1.0 alone has been appended.
C13_Witness ==
    inflight = {} /\ scores = <<75>>

\* The claimed correction, in hundredths: the offset of the nose tip from the
\* box centre is compared on doubled values.
C14_Correction100(t) ==
    LET offset2 == Abs(2 * t.landmarks.noseX
                       - (2 * t.faceDetection.box.x + t.faceDetection.box.width))
    IN  IF t.landmarks.kind = "value" /\ t.landmarks.npos >= 29
        THEN IF offset2 < 40 THEN 1000
             ELSE IF offset2 > 80 THEN 0 - 500
             ELSE 0
        ELSE 0

\* C14: the alignment correction adds 10 to the weighted sum when the
\* offset magnitude is below 20, subtracts 5 when it is above 40, and
\* changes nothing from 20 to 40 inclusive; with the landmarks missing it
\* changes nothing, and a score is appended all the same.
C14_AlignmentCorrection ==
    [][\A t \in inflight :
          (t.pc = "push" /\ t \notin inflight')
             => /\ Len(scores') = Len(scores) + 1
                /\ C13_RoundedClamped(C13_Raw100(C13_Probs(t)) + C14_Correction100(t),
                                      scores'[Len(scores')])
      ]_vars

\* The score of all-zero probabilities with the alignment penalty has been
\* appended.
C14_Witness ==
    inflight = {} /\ scores = <<45>>

\* getUserMedia of call k rejected while the component is mounted.
C15_CameraFailed(k) ==
    /\ mounted /\ mounted'
    /\ startPc[k] = "camera" /\ startPc'[k] = "done"
    /\ k \notin liveStreams'

\* C15: a failed camera acquisition sets an error, arms no sampling or
\* duration timer, leaves the session not running and ends that start; and
\* while the models are not loaded the session is not running, no timer is
\* armed, and a failed load shows an error.
C15_FailurePreventsRunning ==
    [][/\ \A k \in Starts :
            C15_CameraFailed(k)
               => /\ error' # "none"
                  /\ ~interviewActive'
                  /\ intervals' = intervals
                  /\ firstTimers' = firstTimers
                  /\ durTimers' = durTimers
       /\ (mounted' /\ ~modelsLoaded')
             => /\ ~interviewActive'
                /\ intervals' = {} /\ durTimers' = {}
                /\ loadPc' = "failed" => error' # "none"
      ]_vars

\* The only start failed on the camera: an error is shown, nothing is armed
\* and the session is idle.
C15_Witness ==
    /\ mounted /\ nextStart = 2 /\ startPc[1] = "done"
    /\ error = "webcam" /\ SessionState = "idle"
    /\ intervals = {} /\ durTimers = {} /\ liveStreams = {}

\* What reset promises: no session data, no timer, no camera, not running.
C16_Discarded ==
    /\ scores = <<>> /\ finalScore = NoScore /\ error = "none"
    /\ intervals = {} /\ durTimers = {}
    /\ liveStreams = {}
    /\ ~interviewActive

\* C16: a reset leaves the session data discarded, and once discarded
\* (after some start, with no start pending) it stays discarded until the
\* next start.
C16_ResetDiscards ==
    [][/\ (mounted /\ mounted' /\ finalScore # NoScore /\ finalScore' = NoScore)
             => C16_Discarded'
       /\ (/\ mounted /\ mounted'
           /\ C16_Discarded
           /\ nextStart > 1 /\ nextStart' = nextStart
           /\ \A k \in Starts : ~StartPending(k))
             => C16_Discarded'
      ]_vars

\* C17: no rung of the ladder is attempted (no call enters a rung) unless
\* the video has readyState 4 and a non-zero width and height.
C17_ReadyBeforeDetect ==
    [][\A u \in inflight' :
          (u \notin inflight /\ u.pc = "detect") => detectionVideoReady'
      ]_vars

\* C18: the collected scores are in the order of the ticks that produced
\* them.  When tick t appends, every score already there must come from an
\* earlier tick that has ended, and there are at most
\* t.n - 1 - (earlier ticks still outstanding) of those.
C18_TickOrder ==
    [][\A t \in inflight :
          (TickOf(inflight', t.n) = {} /\ Len(scores') > Len(scores))
             => Len(scores) <= t.n - 1 - Cardinality({u \in inflight : u.n < t.n})
      ]_vars

\* C19: a tick appends a score only to the collected sequence of the
\* session that started it: no later start has cleared the sequence since.
C19_NoCrossSession ==
    [][\A t \in inflight :
          (t \notin inflight' /\ Len(scores') > Len(scores))
             => t.gen = nextStart - 1
      ]_vars

\* C20: the timers of the stopped session (call 1 in LeakInit) never get
\* as far as the detector: no doDetection call of that closure is suspended
\* at the detector, so none appends a score.
C20_StoppedTimersIdle ==
    [][\A u \in inflight' : u \notin inflight => u.gen # 1]_vars

\* A step in which stopInterview ran: only it sets a final score, records
\* the scores it read, or removes a duration timeout while leaving a final
\* score set.
C21_StopRan ==
    /\ mounted /\ mounted'
    /\ finalScore' # NoScore
    /\ \/ finalScore = NoScore
       \/ scoresAtStop' # scoresAtStop
       \/ (durTimers' # durTimers /\ durTimers' \subseteq durTimers)

\* C21: a final score, once set, does not change until reset clears it, and
\* stopInterview runs only while the session is running.
C21_FinalScoreSetOnce ==
    [][/\ (mounted /\ mounted' /\ finalScore # NoScore /\ finalScore' # NoScore)
             => finalScore' = finalScore
       /\ C21_StopRan => SessionState = "running"
      ]_vars

\* C22: a final score that is set is 0 or an integer from 10 to 100, and it
\* is 0 exactly when the scores stopInterview read were empty.
C22_FinalScoreRange ==
    finalScore # NoScore
        => /\ finalScore = 0 \/ finalScore \in 10..100
           /\ finalScore = 0 <=> scoresAtStop = <<>>

\* A stop that read two scores set a final score within the range.
C22_Witness ==
    mounted /\ Len(scoresAtStop) = 2 /\ finalScore \in 10..100

\* C23: every start attempt ends: a call of startInterview that is waiting
\* for the camera or for the video eventually stops waiting (the session
\* runs, or the call has reported its error).
C23_StartTerminates ==
    \A k \in Starts : StartPending(k) ~> ~StartPending(k)

====
